---- MODULE Spec2Model ----
(***************************************************************************)
(* Emergence Guard (src/emergence_guard.py): the kernel loader run at      *)
(* module import, the fallback scoring formulas, evaluate, guard_loop and  *)
(* _emergency_shutdown, as one sequential process with an asynchronous     *)
(* SIGINT.                                                                 *)
(*                                                                         *)
(* Numbers.  Signals and rounded scores are integers in thousandths        *)
(* (0.85 is 850); an unrounded score is an integer in ten-thousandths      *)
(* (0.8004 is 8004), which is exactly what a weighted sum of thousandths   *)
(* with the weights 0.1 .. 0.4 needs.  Round3 is round(x, 3).              *)
(***************************************************************************)
EXTENDS Integers, Sequences, FiniteSets, TLC

VARIABLES
  utilBound,   \* environment: is importlib.util bound when line 53 runs
  kernelEnv,   \* environment: what looking up / importing emergence_kernel does
  source,      \* environment: which signal source sense_environment stands for
  pc,          \* position of the process
  strategy,    \* the binding of compute_kappa, compute_epsilon (line 82)
  logged,      \* log lines written so far, counted per message
  signals,     \* guard_loop local
  kappa,       \* guard_loop local (thousandths once rounded)
  epsilon,     \* guard_loop local
  status,      \* guard_loop local
  snap,        \* guard_loop local
  history,     \* guard_loop local: list[Snapshot]
  now,         \* the clock, in epoch seconds
  files,       \* working directory: file name (epoch seconds) -> JSON dump
  sigint,      \* a SIGINT is pending (KeyboardInterrupt not yet raised)
  error,       \* the exception that left the program, "none" if none
  cycles,      \* number of loop iterations begun
  calls,       \* number of calls of _emergency_shutdown
  observedAt,  \* where the KeyboardInterrupt was raised, "none" if never
  scoredWith,  \* the strategies that have scored a cycle
  other,       \* the locals of a second guard_loop call that is not running now
  demo         \* the submission demo (src/wire_openline_demo.py)

vars == <<utilBound, kernelEnv, source, pc, strategy, logged, signals, kappa,
          epsilon, status, snap, history, now, files, sigint, error, cycles,
          calls, observedAt, scoredWith, other, demo>>

----------------------------------------------------------------------------
(* Bounds of the model *)

\* iterations of the while loop in a run of Spec
MaxCycles == 3

\* iterations beyond HistoryCap in a run of SpecLong
MaxExtra == 3

\* iterations of each of the two loops in a run of SpecTwo
MaxPairCycles == 2

----------------------------------------------------------------------------
(* Program constants, in thousandths *)

KAPPA_THRESHOLD == 800

EPSILON_THRESHOLD == 700

KAPPA_WARNING == 600

EPSILON_WARNING == 500

\* the 1000 of history[-1000:]
HistoryCap == 1000

\* guard_loop(interval = 2.0), whole seconds
Interval == 2

\* min(1.0, ...) in ten-thousandths
ScoreCeiling == 10000

None == "none"

KappaKeys == {"cpu_load", "memory_usage", "network_io", "error_rate"}

EpsilonKeys == {"response_variance", "token_entropy", "pattern_deviation",
                "recursion_depth"}

SignalKeys == KappaKeys \cup EpsilonKeys

Min(a, b) == IF a <= b THEN a ELSE b

----------------------------------------------------------------------------
(* Scoring *)

\* _fallback_kappa with error_rate weighted 0.3 instead of 0.2
FallbackKappaMisweighted(s) ==
  Min(ScoreCeiling,
      3 * s["cpu_load"] + 3 * s["memory_usage"] +
      2 * s["network_io"] + 3 * s["error_rate"])

\* _fallback_kappa with the error_rate term subtracted instead of added
FallbackKappaSubtractsErrors(s) ==
  Min(ScoreCeiling,
      3 * s["cpu_load"] + 3 * s["memory_usage"] +
      2 * s["network_io"] - 2 * s["error_rate"])

\* _fallback_kappa: the weighted sum in ten-thousandths, capped from above only
FallbackKappa(s) ==
  Min(ScoreCeiling,
      3 * s["cpu_load"] + 3 * s["memory_usage"] +
      2 * s["network_io"] + 2 * s["error_rate"])

\* _fallback_epsilon
FallbackEpsilon(s) ==
  Min(ScoreCeiling,
      4 * s["response_variance"] + 3 * s["token_entropy"] +
      2 * s["pattern_deviation"] + 1 * s["recursion_depth"])

\* round(x, 3): ten-thousandths to thousandths, to nearest, a tie to even
Round3(x) ==
  LET a == IF x >= 0 THEN x ELSE -x
      q == a \div 10
      r == a % 10
      m == IF r > 5 \/ (r = 5 /\ q % 2 = 1) THEN q + 1 ELSE q
  IN  IF x >= 0 THEN m ELSE -m

\* what an external kernel may return for a signal set: any float; these are
\* the values the model lets it return (ten-thousandths)
PluginKappas == {2000, 8004, 9000}

PluginEpsilons == {1000, 7500}

----------------------------------------------------------------------------
(* Classification *)

CriticalStress == "CRITICAL - HIGH STRESS"

CriticalEntropy == "CRITICAL - HIGH ENTROPY"

Warning == "WARNING - ELEVATED"

Safe == "SAFE"

\* evaluate with >= where the code has >
EvaluateNonStrict(k, e) ==
  IF k >= KAPPA_THRESHOLD THEN CriticalStress
  ELSE IF e >= EPSILON_THRESHOLD THEN CriticalEntropy
  ELSE IF k >= KAPPA_WARNING \/ e >= EPSILON_WARNING THEN Warning
  ELSE Safe

\* evaluate(kappa, epsilon)
Evaluate(k, e) ==
  IF k > KAPPA_THRESHOLD THEN CriticalStress
  ELSE IF e > EPSILON_THRESHOLD THEN CriticalEntropy
  ELSE IF k > KAPPA_WARNING \/ e > EPSILON_WARNING THEN Warning
  ELSE Safe

\* status.startswith("CRITICAL")
IsCritical(st) == st \in {CriticalStress, CriticalEntropy}

----------------------------------------------------------------------------
(* Signal sets *)

Sig(cpu, mem, net, err, rv, te, pd, rd) ==
  [k \in SignalKeys |->
     CASE k = "cpu_load" -> cpu
       [] k = "memory_usage" -> mem
       [] k = "network_io" -> net
       [] k = "error_rate" -> err
       [] k = "response_variance" -> rv
       [] k = "token_entropy" -> te
       [] k = "pattern_deviation" -> pd
       [] k = "recursion_depth" -> rd]

Without(s, key) == [k \in (DOMAIN s) \ {key} |-> s[k]]

Calm == Sig(100, 100, 100, 100, 100, 100, 100, 100)

Scenario == Sig(900, 900, 900, 200, 100, 100, 100, 100)

Edge == Sig(1000, 1000, 1000, 2, 100, 100, 100, 100)

Overload == Sig(1000, 1000, 900, 200, 100, 100, 100, 100)

Entropic == Sig(100, 100, 100, 100, 1000, 1000, 400, 800)

Meltdown == Sig(1000, 1000, 900, 200, 1000, 1000, 400, 800)

\* values sense_environment can draw (each within its uniform range)
Simulated == {Calm, Scenario, Edge, Overload, Entropic, Meltdown}

\* a replacement signal source may leave a key out
Hooks == Simulated \cup {Without(Calm, "cpu_load"), Without(Overload, "recursion_depth")}

Steady == {Calm, Overload}

Paired == {Calm, Overload, Entropic}

Pool(src) ==
  CASE src = "simulated" -> Simulated
    [] src = "hooks" -> Hooks
    [] src = "steady" -> Steady
    [] src = "paired" -> Paired

----------------------------------------------------------------------------
(* State *)

KernelEnvs == {"absent", "ok", "import_error", "init_error", "no_symbols"}

Messages == {"loaded", "notfound", "started", "cycle", "shutdown", "saved",
             "userstop"}

NoFiles == [n \in {} |-> None]

\* no second guard_loop call
NoOther == [id |-> 0]

\* the demo is not run
NoDemo == [pc |-> "absent"]

\* positions inside the try block of guard_loop (lines 131-148)
TryPcs == {"sense", "score", "classify", "append", "act", "shutdown",
           "write", "saved", "sleep"}

\* positions before the try block: module import, lines 127-129
PreTryPcs == {"import", "start"}

Running == pc \in TryPcs

Stopped == pc = "stopped"

Log(m) == [logged EXCEPT ![m] = @ + 1]

\* how many iterations a run of the model makes
CycleLimit ==
  CASE source = "steady" -> HistoryCap + MaxExtra
    [] source = "paired" -> MaxPairCycles
    [] OTHER -> MaxCycles

InitWith(src, kernels, utils) ==
  /\ utilBound \in utils
  /\ kernelEnv \in kernels
  /\ source = src
  /\ pc = "import"
  /\ strategy = None
  /\ logged = [m \in Messages |-> 0]
  /\ signals = None
  /\ kappa = None
  /\ epsilon = None
  /\ status = None
  /\ snap = None
  /\ history = <<>>
  /\ now = 0
  /\ files = NoFiles
  /\ sigint = FALSE
  /\ error = None
  /\ cycles = 0
  /\ calls = 0
  /\ observedAt = None
  /\ scoredWith = {}
  /\ other = NoOther
  /\ demo = NoDemo

Init == InitWith("simulated", KernelEnvs, BOOLEAN)

----------------------------------------------------------------------------
(* Module import: compute_kappa, compute_epsilon = _load_private_kernel() *)

Raise(exc) ==
  /\ error' = exc
  /\ pc' = "crashed"

LoadKernel ==
  /\ pc = "import"
  /\ ~sigint
  /\ CASE ~utilBound ->
            \* importlib.util is not an attribute of importlib: AttributeError
            /\ Raise("AttributeError")
            /\ UNCHANGED <<strategy, logged>>
       [] utilBound /\ kernelEnv \in {"absent", "import_error"} ->
            \* find_spec is None, or import_module raises ImportError:
            \* both reach the except ImportError clause
            /\ strategy' = "fallback"
            /\ logged' = Log("notfound")
            /\ pc' = "start"
            /\ UNCHANGED error
       [] utilBound /\ kernelEnv = "init_error" ->
            \* import_module raises something that is no ImportError
            /\ Raise("RuntimeError")
            /\ UNCHANGED <<strategy, logged>>
       [] utilBound /\ kernelEnv = "no_symbols" ->
            \* imported and logged, then kernel.compute_kappa is missing
            /\ logged' = Log("loaded")
            /\ Raise("AttributeError")
            /\ UNCHANGED strategy
       [] utilBound /\ kernelEnv = "ok" ->
            /\ strategy' = "plugin"
            /\ logged' = Log("loaded")
            /\ pc' = "start"
            /\ UNCHANGED error
  /\ UNCHANGED <<other, demo,
                 utilBound, kernelEnv, source, signals, kappa, epsilon,
                 status, snap, history, now, files, sigint, cycles, calls,
                 observedAt, scoredWith>>

----------------------------------------------------------------------------
(* guard_loop *)

\* lines 127-129
Start ==
  /\ pc = "start"
  /\ ~sigint
  /\ history' = <<>>
  /\ logged' = Log("started")
  /\ pc' = "sense"
  /\ UNCHANGED <<other, demo,
                 utilBound, kernelEnv, source, strategy, signals, kappa,
                 epsilon, status, snap, now, files, sigint, error, cycles,
                 calls, observedAt, scoredWith>>

\* line 133
Sense ==
  /\ pc = "sense"
  /\ ~sigint
  /\ cycles < CycleLimit
  /\ signals' \in Pool(source)
  /\ cycles' = cycles + 1
  /\ pc' = "score"
  /\ UNCHANGED <<other, demo,
                 utilBound, kernelEnv, source, strategy, logged, kappa,
                 epsilon, status, snap, history, now, files, sigint, error,
                 calls, observedAt, scoredWith>>

\* compute_kappa looked up again at each call: the kernel's function is used
\* whatever was selected at import
KappaResultsUnselected(strat, s) == PluginKappas

\* what compute_kappa(signals) may return; {} when it raises KeyError
KappaResults(strat, s) ==
  IF strat = "plugin" THEN PluginKappas
  ELSE IF KappaKeys \subseteq DOMAIN s THEN {FallbackKappa(s)} ELSE {}

\* what compute_epsilon(signals) may return; {} when it raises KeyError
EpsilonResults(strat, s) ==
  IF strat = "plugin" THEN PluginEpsilons
  ELSE IF EpsilonKeys \subseteq DOMAIN s THEN {FallbackEpsilon(s)} ELSE {}

\* lines 134-135
Score ==
  /\ pc = "score"
  /\ ~sigint
  /\ scoredWith' = scoredWith \cup {strategy}
  /\ \/ /\ \E k \in KappaResults(strategy, signals) :
             \E e \in EpsilonResults(strategy, signals) :
                /\ kappa' = Round3(k)
                /\ epsilon' = Round3(e)
        /\ pc' = "classify"
        /\ UNCHANGED error
     \/ /\ \/ KappaResults(strategy, signals) = {}
           \/ EpsilonResults(strategy, signals) = {}
        /\ Raise("KeyError")
        /\ UNCHANGED <<kappa, epsilon>>
  /\ UNCHANGED <<other, demo,
                 utilBound, kernelEnv, source, strategy, logged, signals,
                 status, snap, history, now, files, sigint, cycles, calls,
                 observedAt>>

\* line 136
Classify ==
  /\ pc = "classify"
  /\ ~sigint
  /\ status' = Evaluate(kappa, epsilon)
  /\ pc' = "append"
  /\ UNCHANGED <<other, demo,
                 utilBound, kernelEnv, source, strategy, logged, signals,
                 kappa, epsilon, snap, history, now, files, sigint, error,
                 cycles, calls, observedAt, scoredWith>>

\* Snapshot(epsilon, kappa, ...): the two scores passed in the wrong order
SnapshotSwapped(k, e, st, ts, raw) ==
  [kappa |-> e, epsilon |-> k, status |-> st, timestamp |-> ts, raw |-> raw]

Snapshot(k, e, st, ts, raw) ==
  [kappa |-> k, epsilon |-> e, status |-> st, timestamp |-> ts, raw |-> raw]

\* history.insert(0, snap): the new snapshot put in front of the older ones
AppendAndTrimPrepend(h, s) == <<s>> \o h

\* history.append(snap); history[-1000:]
\* the slice of line 140 is computed and dropped: the list is left as it is
AppendAndTrim(h, s) == Append(h, s)

\* lines 138-142
AppendSnapshot ==
  /\ pc = "append"
  /\ ~sigint
  /\ snap' = Snapshot(kappa, epsilon, status, now, signals)
  /\ history' = AppendAndTrim(history, snap')
  /\ logged' = Log("cycle")
  /\ pc' = "act"
  /\ UNCHANGED <<other, demo,
                 utilBound, kernelEnv, source, strategy, signals, kappa,
                 epsilon, status, now, files, sigint, error, cycles, calls,
                 observedAt, scoredWith>>

\* line 144 with the test negated
ActInverted ==
  /\ pc = "act"
  /\ ~sigint
  /\ pc' = IF IsCritical(status) THEN "sleep" ELSE "shutdown"
  /\ UNCHANGED <<other, demo,
                 utilBound, kernelEnv, source, strategy, logged, signals,
                 kappa, epsilon, status, snap, history, now, files, sigint,
                 error, cycles, calls, observedAt, scoredWith>>

\* line 144: to the handler (145) or to the sleep (148)
Act ==
  /\ pc = "act"
  /\ ~sigint
  /\ pc' = IF IsCritical(status) THEN "shutdown" ELSE "sleep"
  /\ UNCHANGED <<other, demo,
                 utilBound, kernelEnv, source, strategy, logged, signals,
                 kappa, epsilon, status, snap, history, now, files, sigint,
                 error, cycles, calls, observedAt, scoredWith>>

\* a sleep that a pending SIGINT does not cut short
WakeUninterruptible ==
  /\ pc = "sleep"
  /\ now' = now + Interval
  /\ pc' = "sense"
  /\ UNCHANGED <<other, demo,
                 utilBound, kernelEnv, source, strategy, logged, signals,
                 kappa, epsilon, status, snap, history, files, sigint, error,
                 cycles, calls, observedAt, scoredWith>>

\* line 148: the sleep runs its interval out
Wake ==
  /\ pc = "sleep"
  /\ ~sigint
  /\ now' = now + Interval
  /\ pc' = "sense"
  /\ UNCHANGED <<other, demo,
                 utilBound, kernelEnv, source, strategy, logged, signals,
                 kappa, epsilon, status, snap, history, files, sigint, error,
                 cycles, calls, observedAt, scoredWith>>

----------------------------------------------------------------------------
(* _emergency_shutdown(snap) *)

\* lines 157-158
ShutdownEnter ==
  /\ pc = "shutdown"
  /\ ~sigint
  /\ calls' = calls + 1
  /\ logged' = Log("shutdown")
  /\ pc' = "write"
  /\ UNCHANGED <<other, demo,
                 utilBound, kernelEnv, source, strategy, signals, kappa,
                 epsilon, status, snap, history, now, files, sigint, error,
                 cycles, observedAt, scoredWith>>

\* lines 159-165
Dump(s) ==
  [timestamp |-> s.timestamp, kappa |-> s.kappa, epsilon |-> s.epsilon,
   status |-> s.status, signals |-> s.raw]

\* Path(fname).write_text(...): the file of that name is created or replaced
WriteText(fs, fname, text) ==
  [n \in (DOMAIN fs) \cup {fname} |-> IF n = fname THEN text ELSE fs[n]]

\* lines 166-167: the write succeeds, or raises OSError
WriteArtifact ==
  /\ pc = "write"
  /\ ~sigint
  /\ \/ /\ files' = WriteText(files, now, Dump(snap))
        /\ pc' = "saved"
        /\ UNCHANGED error
     \/ /\ Raise("OSError")
        /\ UNCHANGED files
  /\ UNCHANGED <<other, demo,
                 utilBound, kernelEnv, source, strategy, logged, signals,
                 kappa, epsilon, status, snap, history, now, sigint, cycles,
                 calls, observedAt, scoredWith>>

\* the handler returns and the break of line 146 is missing: the loop sleeps
ShutdownReturnNoBreak ==
  /\ pc = "saved"
  /\ ~sigint
  /\ logged' = Log("saved")
  /\ pc' = "sleep"
  /\ UNCHANGED <<other, demo,
                 utilBound, kernelEnv, source, strategy, signals, kappa,
                 epsilon, status, snap, history, now, files, sigint, error,
                 cycles, calls, observedAt, scoredWith>>

\* line 168, the return, and the break of line 146: guard_loop returns
ShutdownReturn ==
  /\ pc = "saved"
  /\ ~sigint
  /\ logged' = Log("saved")
  /\ pc' = "stopped"
  /\ UNCHANGED <<other, demo,
                 utilBound, kernelEnv, source, strategy, signals, kappa,
                 epsilon, status, snap, history, now, files, sigint, error,
                 cycles, calls, observedAt, scoredWith>>

----------------------------------------------------------------------------
(* SIGINT *)

\* the user presses Ctrl-C: the signal is pending until the interpreter
\* raises KeyboardInterrupt, before the process takes its next step
SigInt ==
  /\ pc \in PreTryPcs \cup TryPcs
  /\ ~sigint
  /\ observedAt = None
  /\ sigint' = TRUE
  /\ UNCHANGED <<other, demo,
                 utilBound, kernelEnv, source, pc, strategy, logged,
                 signals, kappa, epsilon, status, snap, history, now, files,
                 error, cycles, calls, observedAt, scoredWith>>

\* lines 150-151: KeyboardInterrupt raised inside the try block
InterruptCaught ==
  /\ sigint
  /\ pc \in TryPcs
  /\ sigint' = FALSE
  /\ observedAt' = pc
  /\ logged' = Log("userstop")
  /\ pc' = "stopped"
  /\ UNCHANGED <<other, demo,
                 utilBound, kernelEnv, source, strategy, signals, kappa,
                 epsilon, status, snap, history, now, files, error, cycles,
                 calls, scoredWith>>

\* KeyboardInterrupt raised outside the try block: nothing catches it
InterruptUncaught ==
  /\ sigint
  /\ pc \in PreTryPcs
  /\ sigint' = FALSE
  /\ observedAt' = pc
  /\ Raise("KeyboardInterrupt")
  /\ UNCHANGED <<other, demo,
                 utilBound, kernelEnv, source, strategy, logged, signals,
                 kappa, epsilon, status, snap, history, now, files, cycles,
                 calls, scoredWith>>

----------------------------------------------------------------------------

Next ==
  \/ LoadKernel
  \/ Start
  \/ Sense
  \/ Score
  \/ Classify
  \/ AppendSnapshot
  \/ Act
  \/ Wake
  \/ ShutdownEnter
  \/ WriteArtifact
  \/ ShutdownReturn
  \/ SigInt
  \/ InterruptCaught
  \/ InterruptUncaught

Spec == Init /\ [][Next]_vars

----------------------------------------------------------------------------
(* The loop late in a long run *)

\* the snapshot of a cycle that sampled Calm under the fallback formulas
CalmSnapshot(ts) ==
  LET k == Round3(FallbackKappa(Calm))
      e == Round3(FallbackEpsilon(Calm))
  IN  Snapshot(k, e, Evaluate(k, e), ts, Calm)

\* the process at the top of the loop (line 133) after HistoryCap - 1
\* iterations that each sampled Calm and slept: no external kernel, no signal
InitLong ==
  LET n == HistoryCap - 1
      last == CalmSnapshot((n - 1) * Interval)
  IN  /\ utilBound = TRUE
      /\ kernelEnv = "absent"
      /\ source = "steady"
      /\ pc = "sense"
      /\ strategy = "fallback"
      /\ logged = [m \in Messages |->
                     CASE m \in {"notfound", "started"} -> 1
                       [] m = "cycle" -> n
                       [] OTHER -> 0]
      /\ signals = Calm
      /\ kappa = last.kappa
      /\ epsilon = last.epsilon
      /\ status = last.status
      /\ snap = last
      /\ history = [i \in 1..n |-> CalmSnapshot((i - 1) * Interval)]
      /\ now = n * Interval
      /\ files = NoFiles
      /\ sigint = FALSE
      /\ error = None
      /\ cycles = n
      /\ calls = 0
      /\ observedAt = None
      /\ scoredWith = {"fallback"}
      /\ other = NoOther
      /\ demo = NoDemo

\* the steps of the loop and of its handler
NextLoop ==
  \/ Sense
  \/ Score
  \/ Classify
  \/ AppendSnapshot
  \/ Act
  \/ Wake
  \/ ShutdownEnter
  \/ WriteArtifact
  \/ ShutdownReturn
  \/ SigInt
  \/ InterruptCaught

SpecLong == InitLong /\ [][NextLoop]_vars

\* the signal source replaced by hooks that may leave a key out
InitHooks == InitWith("hooks", KernelEnvs, BOOLEAN)

SpecHooks == InitHooks /\ [][Next]_vars

----------------------------------------------------------------------------
(* Two guard_loop calls in one process, one thread each, interleaved *)

\* the locals of the guard_loop call that is running now, as call number i
Locals(i) ==
  [id |-> i, pc |-> pc, signals |-> signals, kappa |-> kappa,
   epsilon |-> epsilon, status |-> status, snap |-> snap,
   history |-> history, cycles |-> cycles, calls |-> calls,
   error |-> error, observedAt |-> observedAt]

\* a call that has not run yet
FreshLocals(i) ==
  [id |-> i, pc |-> "start", signals |-> None, kappa |-> None,
   epsilon |-> None, status |-> None, snap |-> None, history |-> <<>>,
   cycles |-> 0, calls |-> 0, error |-> None, observedAt |-> None]

\* the switch with the history kept in one module-level list that both
\* calls append to
SwitchSharingHistory ==
  /\ other.id # 0
  /\ other' = Locals(3 - other.id)
  /\ pc' = other.pc
  /\ signals' = other.signals
  /\ kappa' = other.kappa
  /\ epsilon' = other.epsilon
  /\ status' = other.status
  /\ snap' = other.snap
  /\ cycles' = other.cycles
  /\ calls' = other.calls
  /\ error' = other.error
  /\ observedAt' = other.observedAt
  /\ UNCHANGED <<history, demo, utilBound, kernelEnv, source, strategy,
                 logged, now, files, sigint, scoredWith>>

\* the interpreter switches threads: the running call's frame (the locals of
\* guard_loop, history among them, line 127) is set aside and the other
\* call's frame is resumed; the module's globals, the clock and the working
\* directory are the same for both
Switch ==
  /\ other.id # 0
  /\ other' = Locals(3 - other.id)
  /\ pc' = other.pc
  /\ signals' = other.signals
  /\ kappa' = other.kappa
  /\ epsilon' = other.epsilon
  /\ status' = other.status
  /\ snap' = other.snap
  /\ history' = other.history
  /\ cycles' = other.cycles
  /\ calls' = other.calls
  /\ error' = other.error
  /\ observedAt' = other.observedAt
  /\ UNCHANGED <<demo, utilBound, kernelEnv, source, strategy, logged, now,
                 files, sigint, scoredWith>>

\* the module has been imported with no external kernel; two calls of
\* guard_loop are about to run, the first one on the processor
InitTwo ==
  /\ utilBound = TRUE
  /\ kernelEnv = "absent"
  /\ source = "paired"
  /\ pc = "start"
  /\ strategy = "fallback"
  /\ logged = [m \in Messages |-> IF m = "notfound" THEN 1 ELSE 0]
  /\ signals = None
  /\ kappa = None
  /\ epsilon = None
  /\ status = None
  /\ snap = None
  /\ history = <<>>
  /\ now = 0
  /\ files = NoFiles
  /\ sigint = FALSE
  /\ error = None
  /\ cycles = 0
  /\ calls = 0
  /\ observedAt = None
  /\ scoredWith = {}
  /\ other = FreshLocals(2)
  /\ demo = NoDemo

NextTwo ==
  \/ Start
  \/ Sense
  \/ Score
  \/ Classify
  \/ AppendSnapshot
  \/ Act
  \/ Wake
  \/ ShutdownEnter
  \/ WriteArtifact
  \/ ShutdownReturn
  \/ Switch

SpecTwo == InitTwo /\ [][NextTwo]_vars

----------------------------------------------------------------------------
(* evaluate called on a grid of scores *)

\* the grid has GridSteps intervals on [0, 1]
GridSteps == 20

\* the thresholds and their neighbours, and the scores of the tie-break case
GridMarks == {499, 500, 501, 599, 600, 601, 699, 700, 701, 799, 800, 801,
              750, 850}

Grid == {(i * 1000) \div GridSteps : i \in 0..GridSteps} \cup GridMarks

\* line 136 about to run with kappa and epsilon anywhere on the grid
InitEval ==
  /\ utilBound = TRUE
  /\ kernelEnv = "ok"
  /\ source = "simulated"
  /\ pc = "classify"
  /\ strategy = "plugin"
  /\ logged = [m \in Messages |-> IF m \in {"loaded", "started"} THEN 1 ELSE 0]
  /\ signals = Calm
  /\ kappa \in Grid
  /\ epsilon \in Grid
  /\ status = None
  /\ snap = None
  /\ history = <<>>
  /\ now = 0
  /\ files = NoFiles
  /\ sigint = FALSE
  /\ error = None
  /\ cycles = 1
  /\ calls = 0
  /\ observedAt = None
  /\ scoredWith = {"plugin"}
  /\ other = NoOther
  /\ demo = NoDemo

SpecEval == InitEval /\ [][Classify]_vars

----------------------------------------------------------------------------
(* The fallback formulas called on grids of signal sets *)

\* each signal takes RangeSteps + 1 evenly spaced values of its range
RangeSteps == 2

\* the upper end of random.uniform(0, hi) for each signal, in thousandths
RangeTop(k) ==
  CASE k = "error_rate" -> 300
    [] k = "pattern_deviation" -> 500
    [] k = "recursion_depth" -> 800
    [] OTHER -> 1000

\* the values of the grid on [0, hi]
Steps(hi) == {(i * hi) \div RangeSteps : i \in 0..RangeSteps}

\* signal sets with every value in its range
Ranged ==
  {Sig(cpu, mem, net, err, rv, te, pd, rd) :
     cpu \in Steps(RangeTop("cpu_load")),
     mem \in Steps(RangeTop("memory_usage")),
     net \in Steps(RangeTop("network_io")),
     err \in Steps(RangeTop("error_rate")),
     rv \in Steps(RangeTop("response_variance")),
     te \in Steps(RangeTop("token_entropy")),
     pd \in Steps(RangeTop("pattern_deviation")),
     rd \in Steps(RangeTop("recursion_depth"))}

\* values a replacement signal source may deliver: below 0, inside, above 1
WildValues == {-500, 500, 1500}

\* signal sets with all the keys and any of those values
Wild == [SignalKeys -> WildValues]

\* lines 134-135 about to run under the fallback formulas with a signal set
\* of the pool just sampled in the loop's first iteration
InitScore(src, pool) ==
  /\ utilBound = TRUE
  /\ kernelEnv = "absent"
  /\ source = src
  /\ pc = "score"
  /\ strategy = "fallback"
  /\ logged = [m \in Messages |-> IF m \in {"notfound", "started"} THEN 1 ELSE 0]
  /\ signals \in pool
  /\ kappa = None
  /\ epsilon = None
  /\ status = None
  /\ snap = None
  /\ history = <<>>
  /\ now = 0
  /\ files = NoFiles
  /\ sigint = FALSE
  /\ error = None
  /\ cycles = 1
  /\ calls = 0
  /\ observedAt = None
  /\ scoredWith = {}
  /\ other = NoOther
  /\ demo = NoDemo

InitRanged == InitScore("simulated", Ranged)

SpecRanged == InitRanged /\ [][Score]_vars

InitWild == InitScore("hooks", Wild)

SpecWild == InitWild /\ [][Score]_vars

----------------------------------------------------------------------------
(* The submission demo: wire_openline_demo.main with olp_client *)

\* a value json.loads can return, by what the demo asks of it: its Python
\* type, its truth value, and what .get("ok") gives when it is a dict
Val(type, truthy, ok) == [type |-> type, truthy |-> truthy, ok |-> ok]

\* bodies a server may answer with
Bodies ==
  {"{\"ok\": true}", "{\"ok\": 1}", "{\"ok\": \"no\"}", "{\"ok\": false}",
   "{\"ok\": 0}", "{\"ok\": null}", "{\"id\": 7}", "{}", "[1]", "[]",
   "\"ok\"", "\"\"", "7", "0", "true", "false", "null", "<html>", ""}

\* the bodies that are not JSON documents
NotJson == {"<html>", ""}

\* json.loads(txt) for a JSON document
JsonLoads(txt) ==
  CASE txt \in {"{\"ok\": true}", "{\"ok\": 1}", "{\"ok\": \"no\"}"} ->
         Val("dict", TRUE, "truthy")
    [] txt \in {"{\"ok\": false}", "{\"ok\": 0}", "{\"ok\": null}"} ->
         Val("dict", TRUE, "falsy")
    [] txt = "{\"id\": 7}" -> Val("dict", TRUE, "absent")
    [] txt = "{}" -> Val("dict", FALSE, "absent")
    [] txt = "[1]" -> Val("list", TRUE, "absent")
    [] txt = "[]" -> Val("list", FALSE, "absent")
    [] txt = "\"ok\"" -> Val("str", TRUE, "absent")
    [] txt = "\"\"" -> Val("str", FALSE, "absent")
    [] txt = "7" -> Val("int", TRUE, "absent")
    [] txt = "0" -> Val("int", FALSE, "absent")
    [] txt = "true" -> Val("bool", TRUE, "absent")
    [] txt = "false" -> Val("bool", FALSE, "absent")
    [] txt = "null" -> Val("NoneType", FALSE, "absent")

\* olp_client lines 19-20: the parsed body, or {"ok": False, "raw": txt}
\* when json.loads raises
ParsedOrRaw(txt) ==
  IF txt \in NotJson THEN Val("dict", TRUE, "falsy") ELSE JsonLoads(txt)

\* what urlopen raises (line 17): URLError for a refused connection,
\* HTTPError for a 4xx or 5xx status, TimeoutError after 15 s, ValueError
\* for an OLP_URL that is not a URL
PostErrors == {"URLError", "HTTPError", "TimeoutError", "ValueError"}

\* what the environment does with the POST
Responses ==
  [raises : PostErrors, body : {None}] \cup [raises : {None}, body : Bodies]

\* the flag taken from any truthy response, without looking at "ok"
PostedFlagAnyResponse(res) ==
  IF res.truthy THEN "True" ELSE "False"

\* bool(res and res.get("ok")), line 12: a falsy res is the value of the
\* "and"; a truthy res that is no dict has no .get
PostedFlag(res) ==
  CASE ~res.truthy -> "False"
    [] res.truthy /\ res.type # "dict" -> "AttributeError"
    [] OTHER -> IF res.ok = "truthy" THEN "True" ELSE "False"

\* build_receipt (olp_client 35-44) with the arguments of main
Receipt == [claim |-> "SPY likely up tomorrow", delta_scale |-> 28]

\* no receipt: the local before line 17, the file before any run
NoReceipt == [claim |-> None, delta_scale |-> 0]

\* res before line 11 has bound it
NoRes == Val(None, FALSE, "absent")

\* docs/receipt.latest.json as left by an earlier run
StaleReceipt == [claim |-> "earlier claim", delta_scale |-> 0]

DemoWith(d) ==
  /\ demo' = d
  /\ UNCHANGED <<other, utilBound, kernelEnv, source, pc, strategy, logged,
                 signals, kappa, epsilon, status, snap, history, now, files,
                 sigint, error, cycles, calls, observedAt, scoredWith>>

\* main lines 5-9
BuildFrame ==
  /\ demo.pc = "frame"
  /\ DemoWith([demo EXCEPT !.pc = "post", !.posted = FALSE])

\* main line 11 with post_frame: urlopen raises into the except of line 14,
\* or the body is read and post_frame returns
PostFrame ==
  /\ demo.pc = "post"
  /\ IF demo.response.raises # None
       THEN DemoWith([demo EXCEPT !.pc = "except",
                                  !.caught = demo.response.raises])
       ELSE DemoWith([demo EXCEPT !.pc = "flag",
                                  !.res = ParsedOrRaw(demo.response.body)])

\* main line 12
SetPosted ==
  /\ demo.pc = "flag"
  /\ IF PostedFlag(demo.res) = "AttributeError"
       THEN DemoWith([demo EXCEPT !.pc = "except", !.caught = "AttributeError"])
       ELSE DemoWith([demo EXCEPT !.pc = "print",
                                  !.posted = (PostedFlag(demo.res) = "True")])

\* main line 13
PrintPost ==
  /\ demo.pc = "print"
  /\ DemoWith([demo EXCEPT !.pc = "receipt",
                           !.out = Append(demo.out, "[post]")])

\* main lines 14-15
PrintSkipped ==
  /\ demo.pc = "except"
  /\ DemoWith([demo EXCEPT !.pc = "receipt",
                           !.out = Append(demo.out, "[post] skipped / failed")])

\* main lines 17-24
BuildReceipt ==
  /\ demo.pc = "receipt"
  /\ DemoWith([demo EXCEPT !.pc = "write", !.receipt = Receipt])

\* main line 25 with write_receipt_file: mkdir and write_text succeed, or
\* raise OSError out of main
WriteReceiptFile ==
  /\ demo.pc = "write"
  /\ IF demo.disk = "writable"
       THEN DemoWith([demo EXCEPT !.pc = "wrote",
                                  !.file = demo.receipt,
                                  !.writes = demo.writes + 1])
       ELSE DemoWith([demo EXCEPT !.pc = "crashed", !.error = "OSError"])

\* main line 26
PrintWrote ==
  /\ demo.pc = "wrote"
  /\ DemoWith([demo EXCEPT !.pc = "done",
                           !.out = Append(demo.out, "[ok] wrote")])

\* the demo is started: the guard module is not part of this process
InitDemo ==
  /\ utilBound = TRUE
  /\ kernelEnv = "absent"
  /\ source = "simulated"
  /\ pc = "import"
  /\ strategy = None
  /\ logged = [m \in Messages |-> 0]
  /\ signals = None
  /\ kappa = None
  /\ epsilon = None
  /\ status = None
  /\ snap = None
  /\ history = <<>>
  /\ now = 0
  /\ files = NoFiles
  /\ sigint = FALSE
  /\ error = None
  /\ cycles = 0
  /\ calls = 0
  /\ observedAt = None
  /\ scoredWith = {}
  /\ other = NoOther
  /\ \E r \in Responses, dk \in {"writable", "readonly"},
        f \in {NoReceipt, StaleReceipt} :
       demo = [pc |-> "frame", response |-> r, disk |-> dk, res |-> NoRes,
               caught |-> None, posted |-> FALSE, out |-> <<>>,
               receipt |-> NoReceipt, file |-> f, writes |-> 0, error |-> None]

NextDemo ==
  \/ BuildFrame
  \/ PostFrame
  \/ SetPosted
  \/ PrintPost
  \/ PrintSkipped
  \/ BuildReceipt
  \/ WriteReceiptFile
  \/ PrintWrote

SpecDemo == InitDemo /\ [][NextDemo]_vars

----------------------------------------------------------------------------
(* Claims *)

Last(h) == h[Len(h)]

\* C1: after any number of cycles the history holds at most 1000 snapshots
C1_HistoryBounded == Len(history) <= HistoryCap

\* C7: once more than 1000 snapshots have been appended, the history is
\* exactly the 1000 most recent ones in append order (in a run of SpecLong
\* the n-th snapshot appended carries the timestamp (n - 1) * Interval)
C7_KeepsMostRecent ==
  LET n == logged["cycle"]
  IN  n > HistoryCap =>
        /\ Len(history) = HistoryCap
        /\ \A i \in 1..HistoryCap :
              history[i].timestamp = (n - HistoryCap + i - 1) * Interval
        /\ Last(history) = snap

\* the cycles of the history that were classified CRITICAL
CriticalEntries == {i \in 1..Len(history) : IsCritical(history[i].status)}

\* C2 as stated: STOPPED is terminal, nothing is appended after it, and a
\* stopped loop has called the emergency handler exactly once for the cycle
\* that was classified CRITICAL (read in the claim's favour: not at all when
\* no cycle was)
C2_StoppedAfterOneEmergency ==
  /\ [][Stopped => (Stopped' /\ history' = history)]_vars
  /\ [](Stopped => calls = Cardinality(CriticalEntries))

\* C2 amended: STOPPED is terminal and nothing is appended after it; the
\* handler is called at most once, only for a cycle classified CRITICAL and
\* with that cycle's snapshot, the last of the history; a loop that stopped
\* by its own CRITICAL branch (no external stop request) called it exactly
\* once; a stop request that arrives between the append of a CRITICAL
\* snapshot and the call of line 145 stops the loop without any call
C2_StoppedIsTerminal ==
  /\ [][Stopped => (Stopped' /\ history' = history /\ calls' = calls)]_vars
  /\ [](calls <= 1)
  /\ [](calls = 1 => (/\ IsCritical(snap.status)
                      /\ snap = Last(history)
                      /\ pc \in {"write", "saved", "stopped", "crashed"}))
  /\ []((Stopped /\ observedAt = None) => calls = 1)

\* C2 witness: the loop stopped by its CRITICAL branch after one handler call
C2_StoppedByCritical ==
  /\ Stopped
  /\ observedAt = None
  /\ calls = 1
  /\ Len(history) > 1

\* C3: once the emergency handler has been called, the run ends in STOPPED
\* and no exception (the artifact write's OSError) leaves guard_loop
C3_WriteFailureContained ==
  (calls > 0 /\ pc \in {"stopped", "crashed"}) => (Stopped /\ error = None)

\* C4: a cycle whose signal set lacks a required key does not end the loop:
\* unless a stop was requested, the loop is still RUNNING
C4_MissingKeyKeepsRunning ==
  (/\ cycles > 0
   /\ ~(SignalKeys \subseteq DOMAIN signals)
   /\ observedAt = None) => Running

\* C5: evaluate returns the first matching rule of: kappa > 0.80 CRITICAL
\* (stress); epsilon > 0.70 CRITICAL (entropy); kappa > 0.60 or epsilon >
\* 0.50 WARNING; else SAFE, with strict comparisons and stress first
C5_FirstMatchWins ==
  pc = "append" =>
    /\ (kappa > 800) <=> (status = CriticalStress)
    /\ (kappa <= 800 /\ epsilon > 700) <=> (status = CriticalEntropy)
    /\ (kappa <= 800 /\ epsilon <= 700 /\ (kappa > 600 \/ epsilon > 500))
         <=> (status = Warning)
    /\ (kappa <= 600 /\ epsilon <= 500) <=> (status = Safe)

\* C5 witness: both critical thresholds exceeded, classified by stress
C5_TieBreakCase ==
  /\ pc = "append"
  /\ kappa = 850
  /\ epsilon = 750
  /\ status = CriticalStress

\* the cycles of the history that sampled s under the fallback formulas
ScenarioEntries ==
  {i \in 1..Len(history) : history[i].raw = Scenario /\ strategy = "fallback"}

\* C6 as stated: the scenario's signal set scores stress 0.85, is CRITICAL
\* (stress), is the loop's last cycle, and a loop that stopped by its CRITICAL
\* branch after it wrote exactly one artifact, whose stress is 0.85
C6_ScenarioIsCritical ==
  \A i \in ScenarioEntries :
     /\ history[i].kappa = 850
     /\ history[i].status = CriticalStress
     /\ i = Len(history)
     /\ (Stopped /\ observedAt = None) =>
           (/\ Cardinality(DOMAIN files) = 1
            /\ \A n \in DOMAIN files : files[n].kappa = 850)

\* C6 amended: the scenario's signal set scores stress 0.76, is classified
\* WARNING, the loop goes on to the sleep instead of the handler, and no
\* emergency artifact is ever written for that cycle
C6_ScenarioIsWarning ==
  /\ \A i \in ScenarioEntries :
        /\ history[i].kappa = 760
        /\ history[i].status = Warning
  /\ \A n \in DOMAIN files :
        ~(files[n].signals = Scenario /\ strategy = "fallback")
  /\ (Len(history) \in ScenarioEntries) =>
        (/\ pc \in {"act", "sleep", "sense", "score", "classify", "append",
                    "stopped", "crashed"}
         /\ (Stopped => observedAt # None))

\* C6 witness: the scenario's cycle is over and the loop sleeps
C6_ScenarioSleeps ==
  /\ pc = "sleep"
  /\ Len(history) \in ScenarioEntries
  /\ snap.raw = Scenario
  /\ calls = 0

\* C8: with the external kernel present but failing to load, the process
\* never enters guard_loop and never binds the fallback formulas
C8_BrokenKernelIsFatal ==
  kernelEnv \in {"import_error", "init_error", "no_symbols"} =>
    (/\ pc \in {"import", "crashed"}
     /\ strategy # "fallback"
     /\ cycles = 0)

\* the fallback formulas as documented, in ten-thousandths
DocumentedStress(s) ==
  Min(10000, 3 * s["cpu_load"] + 3 * s["memory_usage"]
             + 2 * s["network_io"] + 2 * s["error_rate"])

DocumentedVolatility(s) ==
  Min(10000, 4 * s["response_variance"] + 3 * s["token_entropy"]
             + 2 * s["pattern_deviation"] + s["recursion_depth"])

C10_StopRequestStops ==
  /\ [][(sigint /\ Running) =>
          (/\ pc' = "stopped"
           /\ observedAt' = pc
           /\ history' = history
           /\ cycles' = cycles
           /\ now' = now)]_vars
  /\ [](observedAt \in TryPcs => Stopped)
  /\ [][Stopped => (cycles' = cycles /\ history' = history)]_vars

\* C10 witness: the request was observed during the sleep, after a cycle
C10_StoppedInSleep ==
  /\ Stopped
  /\ observedAt = "sleep"
  /\ Len(history) >= 1

\* C11: for every signal set with each value in its documented range, the
\* fallback stress and volatility scores (as returned, and as rounded by the
\* loop) lie in [0.0, 1.0]
C11_RangedScoresInUnitInterval ==
  /\ (\A k \in SignalKeys : signals[k] \in 0..RangeTop(k)) =>
        (/\ FallbackKappa(signals) \in 0..10000
         /\ FallbackEpsilon(signals) \in 0..10000)
  /\ ((\A k \in SignalKeys : signals[k] \in 0..RangeTop(k)) /\ pc = "classify") =>
        (/\ kappa \in 0..1000
         /\ epsilon \in 0..1000)

\* C11 witness: the largest in-range signal set has been scored
C11_TopOfRangeScored ==
  /\ pc = "classify"
  /\ signals = Sig(1000, 1000, 1000, 300, 1000, 1000, 500, 800)
  /\ kappa = 860
  /\ epsilon = 880

\* clamp(x, 0, 1) in ten-thousandths
Clamp01(x) == IF x < 0 THEN 0 ELSE IF x > 10000 THEN 10000 ELSE x

\* C12: for every signal set with all the keys, out-of-range values
\* included, each fallback score is the weighted sum clamped to [0, 1] on
\* both sides
C12_ClampedBothSides ==
  (pc = "classify" /\ strategy = "fallback") =>
    (/\ kappa = Round3(Clamp01(3 * signals["cpu_load"] + 3 * signals["memory_usage"]
                               + 2 * signals["network_io"] + 2 * signals["error_rate"]))
     /\ epsilon = Round3(Clamp01(4 * signals["response_variance"]
                                 + 3 * signals["token_entropy"]
                                 + 2 * signals["pattern_deviation"]
                                 + signals["recursion_depth"]))
     /\ kappa \in 0..1000
     /\ epsilon \in 0..1000)

\* C13: a cycle whose stress score, as the strategy returned it, is above
\* 0.80 is classified CRITICAL (stress); one whose stress is at most 0.80 and
\* whose volatility is above 0.70 is classified CRITICAL (entropy)
C13_ThresholdOnReturnedScore ==
  \A i \in 1..Len(history) :
     strategy = "fallback" =>
       (/\ FallbackKappa(history[i].raw) > 8000 =>
              history[i].status = CriticalStress
        /\ (FallbackKappa(history[i].raw) <= 8000
            /\ FallbackEpsilon(history[i].raw) > 7000) =>
              history[i].status = CriticalEntropy)

\* C14: within a cycle the steps run in the order sample, score, classify,
\* append, act: nothing is appended before the classification, the handler
\* runs only in a cycle classified CRITICAL, after that cycle's snapshot was
\* appended and with that snapshot, the last of the history; the sleep runs
\* only after a cycle that was not CRITICAL
C14_CycleOrder ==
  /\ pc \in {"score", "classify", "append"} => Len(history) = cycles - 1
  /\ pc = "act" => (Len(history) = cycles /\ snap = Last(history))
  /\ pc \in {"shutdown", "write", "saved"} =>
        (/\ Len(history) = cycles
         /\ snap = Last(history)
         /\ IsCritical(snap.status))
  /\ pc = "sleep" =>
        (/\ Len(history) = cycles
         /\ ~IsCritical(Last(history).status))
  /\ calls > 0 => IsCritical(Last(history).status)
  /\ logged["shutdown"] = calls
  /\ \A n \in DOMAIN files :
        /\ files[n].timestamp = Last(history).timestamp
        /\ files[n].status = Last(history).status
        /\ files[n].signals = Last(history).raw

\* C14 witness: the handler is running on the snapshot of a later cycle
C14_HandlerAfterAppend ==
  /\ pc = "write"
  /\ calls = 1
  /\ Len(history) >= 2

\* C17: each completed cycle appends exactly one snapshot, and no step (an
\* append, the handler, a later cycle, a stop) changes or reorders the
\* snapshots already in the history
C17_HistoryEntriesFrozen ==
  /\ [][/\ Len(history') \in {Len(history), Len(history) + 1}
        /\ \A i \in 1..Len(history) : history'[i] = history[i]
        /\ Len(history') = Len(history) + 1 =>
              (pc = "append" /\ Last(history') = snap')]_vars
  /\ [](pc \in {"act", "sleep", "sense", "shutdown", "write", "saved"} =>
          (Len(history) = cycles /\ logged["cycle"] = cycles))

\* C17 witness: the handler has run after several appends
C17_HandlerAfterSeveralAppends ==
  /\ pc = "saved"
  /\ calls = 1
  /\ Len(history) >= 3

\* C19: each snapshot's status is evaluate of its own kappa and epsilon, and
\* only the last snapshot of the history can be CRITICAL
C19_SnapshotsSelfConsistent ==
  \A i \in 1..Len(history) :
     /\ history[i].status = Evaluate(history[i].kappa, history[i].epsilon)
     /\ i < Len(history) => history[i].status \in {Safe, Warning}

\* C19 witness: a CRITICAL snapshot follows earlier ones
C19_CriticalLast ==
  /\ Len(history) >= 2
  /\ IsCritical(Last(history).status)

\* the locals of guard_loop call i, running or set aside
Inst(i) == IF other.id = i THEN other ELSE Locals(i)

\* C15: every artifact holds the timestamp, scores, status and signals of a
\* snapshot, under a name taken from the clock at the write, and an artifact
\* once written is never replaced by a later write
C15_ArtifactsNeverOverwritten ==
  /\ [](\A n \in DOMAIN files :
          /\ DOMAIN files[n] = {"timestamp", "kappa", "epsilon", "status", "signals"}
          /\ files[n].timestamp <= n)
  /\ [][\A n \in DOMAIN files :
          n \in DOMAIN files' /\ files'[n] = files[n]]_vars

\* the snapshots call i is still to append in its current iteration
Pending(i) == IF Inst(i).pc \in {"score", "classify", "append"} THEN 1 ELSE 0

\* C16: each of two interleaved guard_loop calls has in its history one
\* snapshot per iteration of its own and nothing else; a history changes only
\* by its own call appending its own snapshot, a step changes the locals of
\* the running call only, and a call that stops, by a CRITICAL cycle or
\* otherwise, leaves the other call where it is with its history as it was
C16_InstancesIndependent ==
  /\ [](\A i \in {1, 2} : Len(Inst(i).history) = Inst(i).cycles - Pending(i))
  /\ [][\A i \in {1, 2} :
          /\ Inst(i)'.history # Inst(i).history =>
                (/\ other.id # i
                 /\ pc = "append"
                 /\ Inst(i)'.history = Append(Inst(i).history, snap')
                 /\ snap'.raw = signals)
          /\ Inst(i)' # Inst(i) =>
                (/\ other.id # i
                 /\ Inst(3 - i)' = Inst(3 - i))
          /\ (Inst(i)'.pc = "stopped" /\ Inst(i).pc # "stopped") =>
                (/\ Inst(3 - i)'.pc = Inst(3 - i).pc
                 /\ Inst(3 - i)'.history = Inst(3 - i).history)]_vars

\* C16 witness: the first call has stopped after its CRITICAL cycle and the
\* second is in its loop with a snapshot of its own
C16_OneStoppedOneRunning ==
  /\ Inst(1).pc = "stopped"
  /\ Inst(1).calls = 1
  /\ Inst(2).pc \in TryPcs
  /\ Len(Inst(2).history) >= 1

\* the POST failed: post_frame raised, or returned a body that is not JSON
\* or has no truthy "ok"
PostFailed ==
  \/ demo.response.raises # None
  \/ demo.response.body \in NotJson
  \/ JsonLoads(demo.response.body).type # "dict"
  \/ JsonLoads(demo.response.body).ok # "truthy"

\* C18: in the demo a failed POST is printed and goes no further: nothing
\* raised by the POST leaves main, main goes on to build the receipt and to
\* call write_receipt_file, the file is written once with that receipt, and
\* posted is true only for a JSON object whose "ok" is truthy
C18_PostFailureOnlyReported ==
  /\ demo.error # None => (demo.pc = "crashed" /\ demo.error = "OSError"
                           /\ demo.disk = "readonly" /\ demo.receipt = Receipt)
  /\ demo.pc \in {"frame", "post", "flag", "print", "except", "receipt",
                  "write", "wrote"} => ENABLED NextDemo
  /\ demo.writes <= 1
  /\ demo.pc \in {"wrote", "done"} => (demo.writes = 1 /\ demo.file = Receipt)
  /\ demo.posted => ~PostFailed
  /\ (PostFailed /\ demo.pc \in {"receipt", "write", "wrote", "done"}) =>
        (~demo.posted /\ Len(demo.out) >= 1 /\ demo.out[1] \in
            {"[post]", "[post] skipped / failed"})
  /\ demo.caught # None => demo.out \in {<<>>, <<"[post] skipped / failed">>,
                              <<"[post] skipped / failed", "[ok] wrote">>}

\* C18 witness: the connection was refused, the failure was printed and the
\* receipt has replaced the one of an earlier run
C18_ReceiptAfterRefusedPost ==
  /\ demo.pc = "done"
  /\ demo.response.raises = "URLError"
  /\ demo.out = <<"[post] skipped / failed", "[ok] wrote">>
  /\ ~demo.posted
  /\ demo.writes = 1
  /\ demo.file = Receipt

====
